---- MODULE Spec2Model ----
(***************************************************************************)
(* The architect pipeline of "03 - The-architect": ArchitectAgent.invoke   *)
(* looks a session up, creates it when the lookup returned nothing, and    *)
(* drives the root SequentialAgent [initial, LoopAgent(5)[reviewer,        *)
(* refiner]] through Runner.run, then builds its answer from the last      *)
(* event the run yielded.                                                  *)
(*                                                                         *)
(* Text is a sequence of tokens. A token <<c, stage, pass, n>> stands for  *)
(* the n-th piece of text the backend produced for stage `stage` in pass   *)
(* `pass` of invocation c, so every value carries where it came from.      *)
(*                                                                         *)
(* Exploration discipline: a behaviour holds at most one irregularity,     *)
(* either one irregular backend/tool response (a fault) or one preemption  *)
(* of an invoke call by another one (threads calling invoke).              *)
(***************************************************************************)
EXTENDS Naturals, Sequences, FiniteSets

VARIABLES sessions, created, raced, left, call, cur, irregular

vars == <<sessions, created, raced, left, call, cur, irregular>>

\* Number of invoke calls made in one behaviour.
MaxCalls == 2

CallIds == 1..MaxCalls

Users == {"u1"}
SessionIds == {"s1", "s2"}
Identities == Users \X SessionIds

\* ---------------------------------------------------------------- stages

initial_architecture_agent == "initial_architecture_agent"
architecture_reviewer_agent == "architecture_reviewer_agent"
architecture_refiner == "ArchitectureRefinerAgent"

max_iterations == 5

refinement_loop ==
  [kind |-> "loop",
   sub_agents |-> <<architecture_reviewer_agent, architecture_refiner>>]

PipelineReversed ==
  <<refinement_loop,
    [kind |-> "leaf", sub_agents |-> <<initial_architecture_agent>>]>>

\* SequentialAgent "SoftwareArchitecturePipeline": its children in list order.
PipelineSubAgents ==
  <<[kind |-> "leaf", sub_agents |-> <<initial_architecture_agent>>],
    refinement_loop>>

Keys == {"architecture_design", "review_feedback"}

\* output_key of each LlmAgent.
OutputKey(name) ==
  IF name = architecture_reviewer_agent THEN "review_feedback"
  ELSE "architecture_design"

\* The {key} placeholders of each LlmAgent's instruction.
TemplateKeys(name) ==
  IF name = initial_architecture_agent THEN {}
  ELSE IF name = architecture_reviewer_agent THEN {"architecture_design"}
  ELSE {"architecture_design", "review_feedback"}

\* tools=[AgentTool(web_searcher)] on the refiner only.
HasTools(name) == name = architecture_refiner

\* ------------------------------------------------------------ text, events

NL == <<0, "nl", 0, 0>>

Tok(c, name, pass, n) == <<c, name, pass, n>>

TextPart(t) == [kind |-> "text", text |-> t]
FunctionCallPart == [kind |-> "function_call", text |-> <<>>]
FunctionResponsePart == [kind |-> "function_response", text |-> <<>>]

Event(author, c, pass, parts) ==
  [author |-> author, inv |-> c, pass |-> pass, parts |-> parts]

\* Event.is_final_response(): no function call and no function response part.
IsFinalResponse(e) ==
  \A i \in 1..Len(e.parts) : e.parts[i].kind = "text"

RECURSIVE Concat(_)
Concat(parts) ==
  IF parts = <<>> THEN <<>>
  ELSE Head(parts).text \o Concat(Tail(parts))

RECURSIVE JoinLines(_)
JoinLines(texts) ==
  IF texts = <<>> THEN <<>>
  ELSE IF Len(texts) = 1 THEN Head(texts)
  ELSE Head(texts) \o <<NL>> \o JoinLines(Tail(texts))

RECURSIVE TextsOf(_)
TextsOf(parts) ==
  IF parts = <<>> THEN <<>>
  ELSE IF Head(parts).text # <<>>
       THEN <<Head(parts).text>> \o TextsOf(Tail(parts))
       ELSE TextsOf(Tail(parts))

\* ---------------------------------------------------------------- sessions

EmptyState == [k \in {} |-> <<>>]

NoSession == [exists |-> FALSE, events |-> <<>>, state |-> EmptyState]
EmptySession == [exists |-> TRUE, events |-> <<>>, state |-> EmptyState]

Put(st, k, v) ==
  [x \in (DOMAIN st) \cup {k} |-> IF x = k THEN v ELSE st[x]]

SessionKeyByUser(user_id, session_id) == <<user_id, "s1">>

\* The session service keys a session by user id and session id (one app).
SessionKey(user_id, session_id) == <<user_id, session_id>>

KeyOf(i) == SessionKey(i[1], i[2])

AlwaysCreate(found) == TRUE
NeverCreate(found) == FALSE

\* "if session is None": create only when the lookup returned nothing.
NeedsCreate(found) == ~found

SaveOnAnyEvent(name, e) == e.parts # <<>>

\* The output key is saved from a final response that has content parts.
SavesOutput(name, e) == IsFinalResponse(e) /\ e.parts # <<>>

\* The state delta an event carries.
StateDelta(name, e) ==
  IF SavesOutput(name, e)
  THEN Put(EmptyState, OutputKey(name), Concat(e.parts))
  ELSE EmptyState

Merge(st, delta) ==
  [x \in (DOMAIN st) \cup (DOMAIN delta) |->
     IF x \in DOMAIN delta THEN delta[x] ELSE st[x]]

\* append_event on one session object.
AppendTo(s, e, delta) ==
  [s EXCEPT !.events = Append(@, e), !.state = Merge(@, delta)]

\* ------------------------------------------------------------ loop control

LoopRunsOneMore(times_looped) == times_looped <= max_iterations

\* LoopAgent: "while times_looped < max_iterations".
LoopContinues(times_looped) == times_looped < max_iterations

\* --------------------------------------------------------------- the answer

ResultJoinAll(events) ==
  IF events = <<>> THEN <<>>
  ELSE JoinLines(TextsOf(
         Concat([i \in 1..Len(events) |-> [text |-> events[i].parts]])))

\* Steps 5 and 6 of invoke: "" when there are no events or the last event
\* has no parts, else the text parts of the last event joined by newlines.
InvokeResult(events) ==
  IF events = <<>> \/ events[Len(events)].parts = <<>> THEN <<>>
  ELSE JoinLines(TextsOf(events[Len(events)].parts))

\* ---------------------------------------------------------------- position

StartPos == [idx |-> 1, sub |-> 1, times_looped |-> 0]

Finished(p) == p.idx > Len(PipelineSubAgents)

CurLeaf(p) == PipelineSubAgents[p.idx].sub_agents[p.sub]

\* The loop pass a leaf runs in (0 outside the loop).
PassOf(p) ==
  IF PipelineSubAgents[p.idx].kind = "loop" THEN p.times_looped + 1 ELSE 0

\* Where the run goes when the current leaf has finished: the next child of
\* the loop pass, the next pass, or the next child of the SequentialAgent.
Advance(p) ==
  LET step == PipelineSubAgents[p.idx] IN
  IF p.sub < Len(step.sub_agents) THEN [p EXCEPT !.sub = @ + 1]
  ELSE IF step.kind = "loop" /\ LoopContinues(p.times_looped + 1)
       THEN [p EXCEPT !.sub = 1, !.times_looped = @ + 1]
       ELSE [idx |-> p.idx + 1, sub |-> 1, times_looped |-> 0]

\* ------------------------------------------------------------------- state

NoOutcome == [kind |-> "none", text |-> <<>>]

IdleCall ==
  [pc |-> "idle", ident |-> <<"u1", "s1">>, found |-> FALSE, ctx |-> NoSession,
   pos |-> StartPos, lpc |-> "start", events |-> <<>>, raised |-> "none",
   outcome |-> NoOutcome, resolved |-> EmptyState]

Init ==
  /\ sessions = [i \in Identities |-> NoSession]
  /\ created = [i \in Identities |-> 0]
  /\ raced = [i \in Identities |-> FALSE]
  /\ left = [i \in Identities |-> NoSession]
  /\ call = [c \in CallIds |-> IdleCall]
  /\ cur = 0
  /\ irregular = "none"

InFlight(c) == call[c].pc \notin {"idle", "done"}

\* Call c steps while another call is still inside invoke.
Preempts(c) == cur # 0 /\ cur # c /\ InFlight(cur)

Sched(c, fault) ==
  /\ Preempts(c) => (irregular = "none" /\ ~fault)
  /\ fault => irregular = "none"
  /\ irregular' = IF Preempts(c) THEN "preempt"
                  ELSE IF fault THEN "fault" ELSE irregular
  /\ cur' = c

StoreAppend(key, e, delta) ==
  [sessions EXCEPT ![key] = IF @.exists THEN AppendTo(@, e, delta) ELSE @]

\* ----------------------------------------------------------------- actions

\* agent.invoke(query, session_id, user_id) is called.
InvokeStart(c, i) ==
  /\ call[c].pc = "idle"
  /\ \A d \in CallIds : d < c => call[d].pc # "idle"
  /\ Sched(c, FALSE)
  /\ call' = [call EXCEPT ![c].pc = "get", ![c].ident = i]
  /\ raced' = [raced EXCEPT ![i] =
                 @ \/ \E d \in CallIds \ {c} : InFlight(d) /\ call[d].ident = i]
  /\ UNCHANGED <<sessions, created, left>>

\* 1) session_service.get_session(...)
GetSession(c) ==
  /\ call[c].pc = "get"
  /\ Sched(c, FALSE)
  /\ LET found == sessions[KeyOf(call[c].ident)].exists IN
     call' = [call EXCEPT ![c].found = found,
                          ![c].pc = IF NeedsCreate(found) THEN "create" ELSE "run"]
  /\ UNCHANGED <<sessions, created, raced, left>>

\* 2) session_service.create_session(..., state={})
CreateSession(c) ==
  /\ call[c].pc = "create"
  /\ Sched(c, FALSE)
  /\ sessions' = [sessions EXCEPT ![KeyOf(call[c].ident)] = EmptySession]
  /\ created' = [created EXCEPT ![KeyOf(call[c].ident)] = @ + 1]
  /\ call' = [call EXCEPT ![c].pc = "run"]
  /\ UNCHANGED <<raced, left>>

\* 4) runner.run(...) starts: the runner fetches the session and appends the
\* user's message to it before the root agent runs.
RunStart(c) ==
  /\ call[c].pc = "run"
  /\ Sched(c, FALSE)
  /\ LET key == KeyOf(call[c].ident)
         e == Event("user", c, 0, <<TextPart(<<Tok(c, "user", 0, 1)>>)>>)
     IN IF sessions[key].exists
        THEN /\ call' = [call EXCEPT ![c].pc = "agent",
                                     ![c].ctx = AppendTo(sessions[key], e, EmptyState),
                                     ![c].pos = StartPos,
                                     ![c].lpc = "start"]
             /\ sessions' = StoreAppend(key, e, EmptyState)
        ELSE /\ call' = [call EXCEPT ![c].pc = "collect",
                                     ![c].raised = "SessionNotFound"]
             /\ UNCHANGED sessions
  /\ UNCHANGED <<created, raced, left>>

\* A leaf stage starts: its instruction template is resolved against the
\* session state; a placeholder whose key is not in the state raises.
LeafStart(c) ==
  /\ call[c].pc = "agent"
  /\ call[c].lpc = "start"
  /\ Sched(c, FALSE)
  /\ LET name == CurLeaf(call[c].pos)
         st == call[c].ctx.state
     IN IF TemplateKeys(name) \subseteq DOMAIN st
        THEN call' = [call EXCEPT ![c].lpc = "model",
                        ![c].resolved = [k \in TemplateKeys(name) |-> st[k]]]
        ELSE call' = [call EXCEPT ![c].pc = "collect", ![c].raised = "KeyError"]
  /\ UNCHANGED <<sessions, created, raced, left>>

Shapes == {"one", "empty", "multi"}

PartsOf(shape, c, name, pass) ==
  IF shape = "one" THEN <<TextPart(<<Tok(c, name, pass, 1)>>)>>
  ELSE IF shape = "empty" THEN <<>>
  ELSE <<TextPart(<<Tok(c, name, pass, 1)>>), TextPart(<<>>),
         TextPart(<<Tok(c, name, pass, 2)>>)>>

\* The runner appends an event a stage yielded to the session (the runner's
\* own session object and the stored one) and hands it to the caller.
Yield(c, e) ==
  LET delta == StateDelta(e.author, e) IN
  /\ sessions' = StoreAppend(KeyOf(call[c].ident), e, delta)
  /\ UNCHANGED <<created, raced, left>>

\* The backend answers with the leaf's final response.
LeafRespond(c, shape) ==
  /\ call[c].pc = "agent"
  /\ call[c].lpc \in {"model", "resume"}
  /\ call[c].lpc = "resume" => shape = "one"
  /\ Sched(c, shape # "one")
  /\ LET name == CurLeaf(call[c].pos)
         e == Event(name, c, PassOf(call[c].pos),
                    PartsOf(shape, c, name, PassOf(call[c].pos)))
         np == Advance(call[c].pos)
     IN /\ Yield(c, e)
        /\ call' = [call EXCEPT
                      ![c].ctx = AppendTo(@, e, StateDelta(name, e)),
                      ![c].events = Append(@, e),
                      ![c].resolved = EmptyState,
                      ![c].pos = np,
                      ![c].lpc = "start",
                      ![c].pc = IF Finished(np) THEN "collect" ELSE "agent"]

\* The backend answers with a request for the leaf's tool, with or without
\* accompanying text.
LeafToolRequest(c, preamble) ==
  /\ call[c].pc = "agent"
  /\ call[c].lpc = "model"
  /\ HasTools(CurLeaf(call[c].pos))
  /\ Sched(c, TRUE)
  /\ LET name == CurLeaf(call[c].pos)
         pass == PassOf(call[c].pos)
         e == Event(name, c, pass,
                    (IF preamble THEN <<TextPart(<<Tok(c, name, pass, 3)>>)>>
                     ELSE <<>>) \o <<FunctionCallPart>>)
     IN /\ Yield(c, e)
        /\ call' = [call EXCEPT
                      ![c].ctx = AppendTo(@, e, StateDelta(name, e)),
                      ![c].events = Append(@, e),
                      ![c].lpc = "tool"]

\* The tool (web_searcher wrapped as a tool) runs to its end and its result
\* is recorded as a function response.
ToolRun(c) ==
  /\ call[c].pc = "agent"
  /\ call[c].lpc = "tool"
  /\ Sched(c, FALSE)
  /\ LET name == CurLeaf(call[c].pos)
         e == Event(name, c, PassOf(call[c].pos), <<FunctionResponsePart>>)
     IN /\ Yield(c, e)
        /\ call' = [call EXCEPT
                      ![c].ctx = AppendTo(@, e, StateDelta(name, e)),
                      ![c].events = Append(@, e),
                      ![c].lpc = "resume"]

\* An error raised inside the run ends the worker that drives it: the event
\* stream handed to invoke just ends.
Raise(c, kind) ==
  /\ call' = [call EXCEPT ![c].pc = "collect", ![c].raised = kind]
  /\ UNCHANGED <<sessions, created, raced, left>>

ToolFail(c) ==
  /\ call[c].pc = "agent"
  /\ call[c].lpc = "tool"
  /\ Sched(c, FALSE)
  /\ Raise(c, "ToolError")

BackendFail(c) ==
  /\ call[c].pc = "agent"
  /\ call[c].lpc \in {"model", "resume"}
  /\ Sched(c, call[c].lpc = "model")
  /\ Raise(c, "BackendError")

\* 5), 6) invoke builds its answer from the collected events and returns.
InvokeReturn(c) ==
  /\ call[c].pc = "collect"
  /\ Sched(c, FALSE)
  /\ call' = [call EXCEPT ![c].pc = "done",
                ![c].outcome = [kind |-> "text",
                                text |-> InvokeResult(call[c].events)]]
  /\ left' = [left EXCEPT ![call[c].ident] = sessions[KeyOf(call[c].ident)]]
  /\ UNCHANGED <<sessions, created, raced>>

Next ==
  \E c \in CallIds :
    \/ \E i \in Identities : InvokeStart(c, i)
    \/ GetSession(c)
    \/ CreateSession(c)
    \/ RunStart(c)
    \/ LeafStart(c)
    \/ \E shape \in Shapes : LeafRespond(c, shape)
    \/ \E preamble \in BOOLEAN : LeafToolRequest(c, preamble)
    \/ ToolRun(c)
    \/ ToolFail(c)
    \/ BackendFail(c)
    \/ InvokeReturn(c)

Spec == Init /\ [][Next]_vars

\* ------------------------------------------------------------------ claims

Sess(i) == sessions[KeyOf(i)]

IsPrefix(s, t) == Len(s) <= Len(t) /\ SubSeq(t, 1, Len(s)) = s

\* No other invoke call ever overlapped with one on c's identity.
Clean(c) == ~raced[call[c].ident]

Started(c) == call[c].pc # "idle"

\* Event e carries a write of key k.
Wrote(e, k) ==
  /\ e.author # "user"
  /\ IsFinalResponse(e)
  /\ e.parts # <<>>
  /\ OutputKey(e.author) = k

LoopChildren == {architecture_reviewer_agent, architecture_refiner}

PassesOf(evs, name) ==
  {evs[i].pass : i \in {j \in 1..Len(evs) :
                          evs[j].author = name /\ IsFinalResponse(evs[j])}}

FinalCount(evs, name) ==
  Cardinality({j \in 1..Len(evs) :
                 evs[j].author = name /\ IsFinalResponse(evs[j])})

WrittenEveryPass(evs, k) ==
  \A p \in 1..max_iterations :
    \E j \in 1..Len(evs) : evs[j].pass = p /\ Wrote(evs[j], k)

Rank(e) ==
  IF e.author = initial_architecture_agent THEN 0
  ELSE IF e.author = architecture_reviewer_agent THEN 2 * e.pass - 1
  ELSE 2 * e.pass

\* The last write of key k among the events, as a set of values (empty when
\* no event wrote k).
LastWritten(evs, k) ==
  {Concat(evs[j].parts) : j \in {x \in 1..Len(evs) :
       /\ Wrote(evs[x], k)
       /\ \A y \in (x + 1)..Len(evs) : ~Wrote(evs[y], k)}}

\* C2: within one invocation the stages run in list order (initial, then in
\* each pass reviewer, then refiner), and a stage that starts reads a State
\* Bag holding the latest value of every key written by the stages before it
\* in this invocation; the loop's first child starts only after the initial
\* stage has produced its turn.
C2_SequentialOrder ==
  \A c \in CallIds :
    /\ \A i, j \in 1..Len(call[c].events) :
         i < j => Rank(call[c].events[i]) <= Rank(call[c].events[j])
    /\ call[c].pc = "agent" =>
         /\ \A j \in 1..Len(call[c].events) :
              Rank(call[c].events[j]) <=
                Rank([author |-> CurLeaf(call[c].pos),
                      pass |-> PassOf(call[c].pos)])
         /\ CurLeaf(call[c].pos) # initial_architecture_agent =>
              \E j \in 1..Len(call[c].events) :
                call[c].events[j].author = initial_architecture_agent
         /\ \A k \in Keys : \A v \in LastWritten(call[c].events, k) :
              /\ k \in DOMAIN call[c].ctx.state
              /\ call[c].ctx.state[k] = v
              /\ (call[c].lpc = "model" /\ k \in DOMAIN call[c].resolved) =>
                   call[c].resolved[k] = v

C2_Witness ==
  \E c \in CallIds :
    /\ call[c].pc = "agent"
    /\ call[c].lpc = "model"
    /\ CurLeaf(call[c].pos) = architecture_refiner
    /\ PassOf(call[c].pos) = 2
    /\ DOMAIN call[c].resolved = Keys
    /\ call[c].resolved["review_feedback"]
         = <<Tok(c, architecture_reviewer_agent, 2, 1)>>
    /\ call[c].resolved["architecture_design"]
         = <<Tok(c, architecture_refiner, 1, 1)>>

\* C3: an invoke on an identity that an earlier invoke has already returned
\* from (calls made one after the other) finds the session, appends to the
\* transcript that call left (which stays an unmodified, strictly shorter
\* prefix) and starts from the State Bag that call left.
C3_Continuity ==
  \A c \in CallIds :
    (call[c].pc \in {"agent", "collect"} /\ Clean(c)
       /\ left[call[c].ident].exists) =>
      /\ call[c].found
      /\ Len(Sess(call[c].ident).events) > Len(left[call[c].ident].events)
      /\ IsPrefix(left[call[c].ident].events, Sess(call[c].ident).events)
      /\ IsPrefix(left[call[c].ident].events, call[c].ctx.events)
      /\ call[c].events = <<>> =>
           /\ Sess(call[c].ident).state = left[call[c].ident].state
           /\ call[c].ctx.state = left[call[c].ident].state

C3_Witness ==
  \E c \in CallIds :
    /\ call[c].pc = "collect"
    /\ call[c].raised = "none"
    /\ Clean(c)
    /\ left[call[c].ident].exists
    /\ Len(left[call[c].ident].events) > 1
    /\ Len(Sess(call[c].ident).events) > Len(left[call[c].ident].events) + 1

Toks(text) == {text[j] : j \in 1..Len(text)}

\* Every token of every value of the state was produced for identity i.
StateOwnedBy(st, i) ==
  \A k \in DOMAIN st : \A t \in Toks(st[k]) : call[t[1]].ident = i

\* C4: whatever the interleaving of invocations, the State Bag of a session,
\* the runner's session of a call on it and the values substituted into the
\* templates of its stages hold only text produced by invocations on that
\* same identity.
C4_Isolation ==
  /\ \A i \in Identities :
       /\ StateOwnedBy(sessions[i].state, i)
       /\ \A j \in 1..Len(sessions[i].events) :
            call[sessions[i].events[j].inv].ident = i
  /\ \A c \in CallIds :
       Started(c) =>
         /\ StateOwnedBy(call[c].ctx.state, call[c].ident)
         /\ StateOwnedBy(call[c].resolved, call[c].ident)

C4_Witness ==
  \E c, d \in CallIds :
    /\ call[c].ident # call[d].ident
    /\ call[c].pc = "agent"
    /\ call[d].pc = "agent"
    /\ call[c].resolved # EmptyState
    /\ call[d].resolved # EmptyState
    /\ DOMAIN Sess(call[c].ident).state = Keys
    /\ DOMAIN Sess(call[d].ident).state = Keys

\* C5: for an identity referenced by calls made one after the other, the
\* session is created exactly once, empty; a later reference finds that same
\* session as the last call left it; the run never fails with
\* session-not-found.
C5_GetOrCreate ==
  /\ \A i \in Identities :
       ~raced[i] =>
         /\ created[i] <= 1
         /\ sessions[i].exists <=> created[i] = 1
  /\ \A c \in CallIds :
       Clean(c) =>
         /\ call[c].raised # "SessionNotFound"
         /\ call[c].pc = "run" =>
              /\ Sess(call[c].ident).exists
              /\ call[c].found => Sess(call[c].ident) = left[call[c].ident]
              /\ ~call[c].found => Sess(call[c].ident) = EmptySession

C5_Witness ==
  \E c \in CallIds :
    /\ call[c].pc = "run"
    /\ call[c].found
    /\ Clean(c)
    /\ created[call[c].ident] = 1
    /\ Len(Sess(call[c].ident).events) > 1
    /\ DOMAIN Sess(call[c].ident).state = Keys

HasUserTurnOf(evs, c) ==
  \E j \in 1..Len(evs) : evs[j].author = "user" /\ evs[j].inv = c

\* C6: in every interleaving of invoke calls, two calls for the same new
\* identity never both create the session, and no call's appended user turn
\* is lost from the stored transcript.
C6_Serialized ==
  /\ \A i \in Identities : created[i] <= 1
  /\ \A c \in CallIds :
       (call[c].pc \in {"agent", "collect", "done"}
          /\ call[c].raised # "SessionNotFound") =>
         HasUserTurnOf(Sess(call[c].ident).events, c)

LastOf(evs) == evs[Len(evs)]

\* The events of the stage step that produced the last event.
FinalStep(evs) ==
  SelectSeq(evs, LAMBDA e : e.author = LastOf(evs).author
                            /\ e.pass = LastOf(evs).pass)

RECURSIVE AllParts(_)
AllParts(evs) ==
  IF evs = <<>> THEN <<>> ELSE Head(evs).parts \o AllParts(Tail(evs))

HasText(p) == p.text # <<>>

RECURSIVE LinesLeft(_)
LinesLeft(texts) ==
  IF Len(texts) = 0 THEN <<>>
  ELSE IF Len(texts) = 1 THEN texts[1]
  ELSE LinesLeft(SubSeq(texts, 1, Len(texts) - 1)) \o <<NL>> \o texts[Len(texts)]

TextLines(parts) ==
  LinesLeft([j \in 1..Len(SelectSeq(parts, HasText)) |->
               SelectSeq(parts, HasText)[j].text])

C8_FailFast ==
  \A c \in CallIds :
    call[c].raised # "none" =>
      /\ call[c].pc \in {"collect", "done"}
      /\ Clean(c) => IsPrefix(call[c].ctx.events, Sess(call[c].ident).events)
      /\ call[c].pc = "done" => call[c].outcome.kind = "failure"

SameLeaf(e, f) == e.author = f.author /\ e.inv = f.inv /\ e.pass = f.pass

IsToolTurn(e) ==
  \E j \in 1..Len(e.parts) : e.parts[j].kind = "function_response"

IsToolRequest(e) ==
  \E j \in 1..Len(e.parts) : e.parts[j].kind = "function_call"

\* In a transcript: every tool turn comes after the user turn of its
\* invocation and after the request of its leaf, and before every final
\* agent turn of that leaf.
ToolTurnsInOrder(evs) ==
  \A i \in 1..Len(evs) :
    IsToolTurn(evs[i]) =>
      /\ \E u \in 1..(i - 1) :
           evs[u].author = "user" /\ evs[u].inv = evs[i].inv
      /\ \E r \in 1..(i - 1) :
           IsToolRequest(evs[r]) /\ SameLeaf(evs[r], evs[i])
      /\ \A j \in 1..Len(evs) :
           (SameLeaf(evs[j], evs[i]) /\ IsFinalResponse(evs[j])) => i < j

\* Every value of the state is the text of a final agent turn of the
\* transcript.
StateFromFinalTurns(st, evs) ==
  \A k \in DOMAIN st :
    \E j \in 1..Len(evs) :
      /\ Wrote(evs[j], k)
      /\ st[k] = Concat(evs[j].parts)

\* C9: the transcript records a leaf's tool turn after the request and before
\* the leaf's final agent turn, and the leaf's output key only ever holds the
\* text of a final turn: while the tool request is pending or the tool has
\* just returned, the key has not been written by this leaf.
C9_ToolTurnOrder ==
  /\ \A i \in Identities :
       ~raced[i] =>
         /\ ToolTurnsInOrder(sessions[i].events)
         /\ StateFromFinalTurns(sessions[i].state, sessions[i].events)
  /\ \A c \in CallIds :
       /\ ToolTurnsInOrder(call[c].ctx.events)
       /\ StateFromFinalTurns(call[c].ctx.state, call[c].ctx.events)
       /\ (call[c].pc = "agent" /\ call[c].lpc \in {"tool", "resume"}) =>
            \A k \in DOMAIN call[c].ctx.state :
              \A t \in Toks(call[c].ctx.state[k]) :
                ~(t[1] = c /\ t[2] = CurLeaf(call[c].pos)
                    /\ t[3] = PassOf(call[c].pos))

C9_Witness ==
  \E c \in CallIds :
    \E i, j \in 1..Len(call[c].ctx.events) :
      /\ i < j
      /\ IsToolTurn(call[c].ctx.events[i])
      /\ IsFinalResponse(call[c].ctx.events[j])
      /\ SameLeaf(call[c].ctx.events[i], call[c].ctx.events[j])
      /\ IsToolRequest(call[c].ctx.events[i - 1])
      /\ Len(call[c].ctx.events[i - 1].parts) = 2
      /\ call[c].ctx.state["architecture_design"]
           = Concat(call[c].ctx.events[j].parts)

\* C10: no stage resolves its template against an unset key: the reviewer
\* about to call the backend has architecture_design set, the refiner has
\* architecture_design and review_feedback set, provided no earlier stage
\* failed.
C10_KeysSet ==
  \A c \in CallIds :
    /\ call[c].raised # "KeyError"
    /\ (call[c].pc = "agent" /\ call[c].lpc = "model") =>
         /\ TemplateKeys(CurLeaf(call[c].pos)) \subseteq DOMAIN call[c].ctx.state
         /\ DOMAIN call[c].resolved = TemplateKeys(CurLeaf(call[c].pos))

====
